---------------------------- MODULE Spec2Model ----------------------------
(***************************************************************************)
(* Model of the Mailchimp signup component of the configuration wizard     *)
(* (js/src/components/MailchimpSignup.js).                                 *)
(*                                                                         *)
(* JavaScript strings are TLA+ strings, handled with Len, SubSeq and \o.   *)
(* Other JavaScript values are tagged records, so that a boolean, an       *)
(* object and undefined stay different values, as they are for === and     *)
(* for a truthiness test.                                                  *)
(***************************************************************************)
EXTENDS Integers, Sequences, FiniteSets, TLC

VARIABLES
    state,       \* this.state: successfulSignup, isLoading, message
    stepState,   \* this.props.stepState: currentStep and the recorded hasSignup
    value,       \* this.props.value.hasSignup, the flag the host mounts with
    onChange,    \* this.onChange, assigned by render
    emailInput,  \* this._emailInput.value, the text in the email field
    requests,    \* the requests handed to sendRequest, with their promise's status
    clicks,      \* number of calls of signup(), one per click on the button
    events,      \* the ChangeEvents passed to onChange, oldest first
    log,         \* number of console.error entries
    last,        \* the last of signup, then-callback, catch-callback; its request and response
    san          \* the sanitization pipeline run on its own: stage, input, output

vars == <<state, stepState, value, onChange, emailInput, requests, clicks, events, log, last, san>>

-----------------------------------------------------------------------------
(* Bounds *)

\* Number of submit actions in one behaviour.
MaxSubmits == 2

\* Number of parts a message of the sanitization pipeline is composed of.
MaxParts == 3

-----------------------------------------------------------------------------
(* JavaScript values *)

JsTrue == [tag |-> "boolean", b |-> TRUE]

JsFalse == [tag |-> "boolean", b |-> FALSE]

JsBool(b) == [tag |-> "boolean", b |-> b]

JsUndefined == [tag |-> "undefined", b |-> FALSE]

\* The object { hasSignup: h } that the host passes as props.value.
ValueObject(h) == [tag |-> "object", b |-> h]

\* ToBoolean: an object is truthy, undefined is falsy.
Truthy(v) == v.tag = "object" \/ (v.tag = "boolean" /\ v.b)

\* state.message: undefined until a response sets it, then a string.
NoMessage == [tag |-> "undefined", s |-> ""]

JsString(s) == [tag |-> "string", s |-> s]

Min(S) == CHOOSE x \in S : \A y \in S : x <= y

-----------------------------------------------------------------------------
(* String functions *)

\* String.prototype.indexOf: the 0-based position of the first occurrence, or -1.
indexOf(s, searchString) ==
    LET n == Len(s)
        m == Len(searchString)
        hits == { i \in 0..(n - m) : SubSeq(s, i + 1, i + m) = searchString }
    IN  IF hits = {} THEN -1 ELSE Min(hits)

\* The characters the regular expression's "." does not match.
LineTerminators == { "\n", "\r" }

\* The ends (0-based position of "</a>") that /<a.*?<\/a>/ can match from a
\* start i where "<a" stands: only characters matched by "." lie between.
AnchorEnds(s, i) ==
    { j \in (i + 2)..(Len(s) - 4) :
        /\ SubSeq(s, j + 1, j + 4) = "</a>"
        /\ \A k \in (i + 3)..j : SubSeq(s, k, k) \notin LineTerminators }

\* The starts (0-based) at which /<a.*?<\/a>/ matches.
AnchorStarts(s) ==
    { i \in 0..(Len(s) - 2) :
        SubSeq(s, i + 1, i + 2) = "<a" /\ AnchorEnds(s, i) # {} }

\* stripLinkFromMessage with a greedy quantifier, /<a.*<\/a>/.
stripLinkFromMessageGreedy(message) ==
    IF AnchorStarts(message) = {}
    THEN message
    ELSE LET i == Min(AnchorStarts(message))
             ends == AnchorEnds(message, i)
             j == CHOOSE x \in ends : \A y \in ends : y <= x
         IN  SubSeq(message, 1, i) \o SubSeq(message, j + 5, Len(message))

\* message.replace( /<a.*?<\/a>/, "" ): the leftmost match, ended by the lazy
\* quantifier at the nearest "</a>", is removed; there is no g flag.
stripLinkFromMessage(message) ==
    IF AnchorStarts(message) = {}
    THEN message
    ELSE LET i == Min(AnchorStarts(message))
             j == Min(AnchorEnds(message, i))
         IN  SubSeq(message, 1, i) \o SubSeq(message, j + 5, Len(message))

\* String.prototype.endsWith( searchString, endPosition ).
endsWith(s, searchString, endPosition) ==
    LET len == Len(s)
        pos == IF endPosition < 0 THEN 0 ELSE endPosition
        end == IF pos < len THEN pos ELSE len
        start == end - Len(searchString)
    IN  IF start < 0 THEN FALSE ELSE SubSeq(s, start + 1, end) = searchString

\* String.prototype.slice( beginIndex ) for a non-negative beginIndex.
slice(s, beginIndex) == SubSeq(s, beginIndex + 1, Len(s))

\* stripMessage that tests the end of the whole string, endsWith( "0 - " ).
stripMessageAtEnd(string) ==
    IF endsWith(string, "0 - ", Len(string)) THEN slice(string, 4) ELSE string

stripMessage(string) ==
    IF endsWith(string, "0 - ", 4) THEN slice(string, 4) ELSE string

-----------------------------------------------------------------------------
(* The component *)

AlreadySubscribed == "is already subscribed"

ConfirmationReminder ==
    "Almost finished... We need to confirm your email address." \o
    "To complete the subscription process, please click the link in the email we just sent you."

\* React's setState merges the partial state into the current state.
setState(st, partial) ==
    [k \in DOMAIN st |-> IF k \in DOMAIN partial THEN partial[k] ELSE st[k]]

\* The partial state set for an address that is already on the list.
AlreadySubscribedUpdate ==
    [isLoading |-> FALSE,
     successfulSignup |-> JsTrue,
     message |-> JsString(ConfirmationReminder)]

\* ErrorUpdate with the two sanitization calls in the other order.
ErrorUpdatePrefixFirst(response) ==
    [isLoading |-> FALSE,
     successfulSignup |-> JsFalse,
     message |-> JsString(stripLinkFromMessage(stripMessage(response.msg)))]

\* ErrorUpdate that forgets to clear the loading flag.
ErrorUpdateKeepsLoading(response) ==
    [successfulSignup |-> JsFalse,
     message |-> JsString(stripMessage(stripLinkFromMessage(response.msg)))]

\* The partial state set for a response whose result is "error".
ErrorUpdate(response) ==
    [isLoading |-> FALSE,
     successfulSignup |-> JsFalse,
     message |-> JsString(stripMessage(stripLinkFromMessage(response.msg)))]

\* SuccessUpdate that sanitizes the message as the error branch does.
SuccessUpdateSanitized(response) ==
    [isLoading |-> FALSE,
     successfulSignup |-> JsTrue,
     message |-> JsString(stripMessage(stripLinkFromMessage(response.msg)))]

\* SuccessUpdate that forgets to clear the loading flag.
SuccessUpdateKeepsLoading(response) ==
    [successfulSignup |-> JsTrue,
     message |-> JsString(response.msg)]

\* The partial state set for any other response.
SuccessUpdate(response) ==
    [isLoading |-> FALSE,
     successfulSignup |-> JsTrue,
     message |-> JsString(response.msg)]

\* handleResponse that tests the result tag before the message.
handleResponseResultFirst(st, response) ==
    IF response.result = "error"
    THEN setState(st, ErrorUpdate(response))
    ELSE IF indexOf(response.msg, AlreadySubscribed) # -1
    THEN setState(st, AlreadySubscribedUpdate)
    ELSE setState(st, SuccessUpdate(response))

\* handleResponse that lets no later response undo a successful signup.
handleResponseKeepsSuccess(st, response) ==
    IF st.successfulSignup = JsTrue
    THEN setState(st, [isLoading |-> FALSE])
    ELSE IF indexOf(response.msg, AlreadySubscribed) # -1
    THEN setState(st, AlreadySubscribedUpdate)
    ELSE IF response.result = "error"
    THEN setState(st, ErrorUpdate(response))
    ELSE setState(st, SuccessUpdate(response))

\* The state after the then-callback of handleResultSignup ran on a response.
handleResponse(st, response) ==
    IF indexOf(response.msg, AlreadySubscribed) # -1
    THEN setState(st, AlreadySubscribedUpdate)
    ELSE IF response.result = "error"
    THEN setState(st, ErrorUpdate(response))
    ELSE setState(st, SuccessUpdate(response))

\* The event built by sendChangeEvent from the state after the update.
ChangeEvent(st) ==
    [name |-> "mailchimpSignup", value |-> [hasSignup |-> st.successfulSignup]]

\* sendChangeEvent that reports a signup whatever the flag is.
sendChangeEventSignedUp(st, evs, handler) ==
    IF handler = "props.onChange"
    THEN Append(evs, [name |-> "mailchimpSignup", value |-> [hasSignup |-> JsTrue]])
    ELSE evs

\* sendChangeEvent: this.onChange( evt ); calling an unassigned this.onChange
\* throws, and no event reaches the host.
sendChangeEvent(st, evs, handler) ==
    IF handler = "props.onChange" THEN Append(evs, ChangeEvent(st)) ELSE evs

\* componentDidUpdate that compares the truthiness of the two flags.
componentDidUpdateTruthiness(prevState, st, evs, handler) ==
    IF Truthy(st.successfulSignup) # Truthy(prevState.successfulSignup)
    THEN sendChangeEvent(st, evs, handler)
    ELSE evs

\* componentDidUpdate that reports only a flag that became true.
componentDidUpdateOnlyTrue(prevState, st, evs, handler) ==
    IF st.successfulSignup # prevState.successfulSignup /\ st.successfulSignup = JsTrue
    THEN sendChangeEvent(st, evs, handler)
    ELSE evs

\* componentDidUpdate: the events after an update from prevState to st.
componentDidUpdate(prevState, st, evs, handler) ==
    IF st.successfulSignup # prevState.successfulSignup
    THEN sendChangeEvent(st, evs, handler)
    ELSE evs

\* skipRendering that is satisfied by either of its two conditions.
skipRenderingEither(ss) ==
    LET isCurrentStepSuccess == ss.currentStep = "success"
        hasMailchimpSignup == ss.hasSignup = JsTrue
    IN  isCurrentStepSuccess \/ hasMailchimpSignup

skipRendering(ss) ==
    LET isCurrentStepSuccess == ss.currentStep = "success"
        hasMailchimpSignup == ss.hasSignup = JsTrue
    IN  isCurrentStepSuccess /\ hasMailchimpSignup

\* getLoadingIndicator with its test turned around.
getLoadingIndicatorInverted(st) ==
    IF st.isLoading THEN "null" ELSE "yoast-wizard-overlay"

getLoadingIndicator(st) ==
    IF ~st.isLoading THEN "null" ELSE "yoast-wizard-overlay"

getSignupMessage(st) ==
    IF Truthy(st.successfulSignup)
    THEN [className |-> "yoast-wizard-mailchimp-message-success", text |-> st.message]
    ELSE [className |-> "yoast-wizard-mailchimp-message-error", text |-> st.message]

\* What render returns: null or the form with its parts.
NullElement ==
    [null |-> TRUE, input |-> FALSE, button |-> FALSE,
     message |-> [className |-> "", text |-> NoMessage], loader |-> "null"]

render(st, ss) ==
    IF skipRendering(ss)
    THEN NullElement
    ELSE [null |-> FALSE, input |-> TRUE, button |-> TRUE,
          message |-> getSignupMessage(st), loader |-> getLoadingIndicator(st)]

\* this.onChange after a render: assigned unless rendering is skipped.
renderOnChange(ss, handler) ==
    IF skipRendering(ss) THEN handler ELSE "props.onChange"

-----------------------------------------------------------------------------
(* Inputs *)

StepStates ==
    [currentStep : {"newsletter", "success"}, hasSignup : {JsTrue, JsFalse, JsUndefined}]

MailchimpActionUrl == "https://yoast.us1.list-manage.com/subscribe/post-json"

CurrentUserEmail == "admin@example.org"

Emails == { CurrentUserEmail, "a+b&c=d@example.org" }

Results == { "success", "error", "" }

Messages ==
    { "Thank you for subscribing!",
      "0 - Your email is invalid",
      "a@b.c is already subscribed to list Yoast. <a href=u>Click here to update your profile</a>",
      "<a href=u>x</a>0 - y" }

Responses == [result : Results, msg : Messages]

NoResponse == [result |-> "", msg |-> ""]

SanIdle == [stage |-> "idle", input |-> "", linkStripped |-> "", output |-> ""]

\* The pieces the messages given to the sanitization pipeline are made of.
Parts == { "<a>x</a>", "<a", "</a>", "0 - ", "\n", "t" }

RECURSIVE PartStrings(_)
\* The strings made of at most n parts.
PartStrings(n) ==
    IF n = 0
    THEN { "" }
    ELSE LET shorter == PartStrings(n - 1)
         IN  shorter \cup { s \o p : s \in shorter, p \in Parts }

-----------------------------------------------------------------------------
(* The widget *)

\* The constructor and the first render.
Init ==
    /\ value \in BOOLEAN
    /\ stepState \in StepStates
    /\ state = [successfulSignup |-> ValueObject(value),
                isLoading |-> FALSE,
                message |-> NoMessage]
    /\ onChange = renderOnChange(stepState, "undefined")
    /\ emailInput = CurrentUserEmail
    /\ requests = <<>>
    /\ clicks = 0
    /\ events = <<>>
    /\ log = 0
    /\ last = [op |-> "mount", req |-> 0, response |-> NoResponse]
    /\ san = SanIdle

\* The user edits the email field; the input is not controlled by the state.
TypeEmail(e) ==
    /\ ~render(state, stepState).null
    /\ e # emailInput
    /\ emailInput' = e
    /\ UNCHANGED <<state, stepState, value, onChange, requests, clicks, events, log, last, san>>

\* signup() that returns at once while a submission is loading.
signupGuarded ==
    /\ render(state, stepState).button
    /\ clicks < MaxSubmits
    /\ clicks' = clicks + 1
    /\ IF state.isLoading
       THEN UNCHANGED <<state, requests, events, onChange, last>>
       ELSE /\ requests' = Append(requests, [url |-> MailchimpActionUrl,
                                             email |-> emailInput,
                                             data |-> "EMAIL=" \o emailInput,
                                             status |-> "pending"])
            /\ state' = setState(state, [isLoading |-> TRUE])
            /\ events' = componentDidUpdate(state, state', events, onChange)
            /\ onChange' = renderOnChange(stepState, onChange)
            /\ last' = [op |-> "signup", req |-> Len(requests'), response |-> NoResponse]
    /\ UNCHANGED <<stepState, value, emailInput, log, san>>

\* signup() that also drops the outcome of the earlier submission.
signupClearsOutcome ==
    /\ render(state, stepState).button
    /\ clicks < MaxSubmits
    /\ clicks' = clicks + 1
    /\ requests' = Append(requests, [url |-> MailchimpActionUrl,
                                     email |-> emailInput,
                                     data |-> "EMAIL=" \o emailInput,
                                     status |-> "pending"])
    /\ state' = setState(state, [isLoading |-> TRUE, message |-> NoMessage])
    /\ events' = componentDidUpdate(state, state', events, onChange)
    /\ onChange' = renderOnChange(stepState, onChange)
    /\ last' = [op |-> "signup", req |-> Len(requests'), response |-> NoResponse]
    /\ UNCHANGED <<stepState, value, emailInput, log, san>>

\* A click on the button: signup(). The request keeps, beside what is handed
\* to sendRequest, the address that was read from the field.
signup ==
    /\ render(state, stepState).button
    /\ clicks < MaxSubmits
    /\ clicks' = clicks + 1
    /\ LET email == emailInput
           data == "EMAIL=" \o email
       IN  requests' = Append(requests, [url |-> MailchimpActionUrl,
                                         email |-> email,
                                         data |-> data,
                                         status |-> "pending"])
    /\ state' = setState(state, [isLoading |-> TRUE])
    /\ events' = componentDidUpdate(state, state', events, onChange)
    /\ onChange' = renderOnChange(stepState, onChange)
    /\ last' = [op |-> "signup", req |-> Len(requests'), response |-> NoResponse]
    /\ UNCHANGED <<stepState, value, emailInput, log, san>>

\* The promise of request i resolves with a response: the then-callback.
Resolve(i, response) ==
    /\ requests[i].status = "pending"
    /\ requests' = [requests EXCEPT ![i].status = "resolved"]
    /\ state' = handleResponse(state, response)
    /\ events' = componentDidUpdate(state, state', events, onChange)
    /\ onChange' = renderOnChange(stepState, onChange)
    /\ last' = [op |-> "then", req |-> i, response |-> response]
    /\ UNCHANGED <<stepState, value, emailInput, clicks, log, san>>

\* A catch-callback that also takes the widget out of the loading state.
RejectClearsLoading(i) ==
    /\ requests[i].status = "pending"
    /\ requests' = [requests EXCEPT ![i].status = "rejected"]
    /\ log' = log + 1
    /\ state' = setState(state, [isLoading |-> FALSE])
    /\ last' = [op |-> "catch", req |-> i, response |-> NoResponse]
    /\ UNCHANGED <<stepState, value, onChange, emailInput, clicks, events, san>>

\* The promise of request i rejects: the catch-callback.
Reject(i) ==
    /\ requests[i].status = "pending"
    /\ requests' = [requests EXCEPT ![i].status = "rejected"]
    /\ log' = log + 1
    /\ last' = [op |-> "catch", req |-> i, response |-> NoResponse]
    /\ UNCHANGED <<state, stepState, value, onChange, emailInput, clicks, events, san>>

\* The host re-renders the component with a new stepState.
HostUpdate(ss) ==
    /\ ss # stepState
    /\ stepState' = ss
    /\ events' = componentDidUpdate(state, state, events, onChange)
    /\ onChange' = renderOnChange(ss, onChange)
    /\ UNCHANGED <<state, value, emailInput, requests, clicks, log, last, san>>

Next ==
    \/ \E e \in Emails : TypeEmail(e)
    \/ signup
    \/ \E i \in DOMAIN requests : \E response \in Responses : Resolve(i, response)
    \/ \E i \in DOMAIN requests : Reject(i)
    \/ \E ss \in StepStates : HostUpdate(ss)

Spec == Init /\ [][Next]_vars

\* The promise of some pending request settles.
Settle ==
    \/ \E i \in DOMAIN requests : \E response \in Responses : Resolve(i, response)
    \/ \E i \in DOMAIN requests : Reject(i)

\* The steps of a widget whose email field is left as it was rendered; the
\* address has no part in what the callbacks do to the state.
NextLive ==
    \/ signup
    \/ Settle
    \/ \E ss \in StepStates : HostUpdate(ss)

\* The widget when every promise that sendRequest returns settles in the end.
SpecLive == Init /\ [][NextLive]_vars /\ WF_vars(Settle)

-----------------------------------------------------------------------------
(* The sanitization of an error message, one call per step *)

InitSanitize ==
    /\ value = FALSE
    /\ stepState = [currentStep |-> "newsletter", hasSignup |-> JsFalse]
    /\ state = [successfulSignup |-> ValueObject(value),
                isLoading |-> FALSE,
                message |-> NoMessage]
    /\ onChange = renderOnChange(stepState, "undefined")
    /\ emailInput = CurrentUserEmail
    /\ requests = <<>>
    /\ clicks = 0
    /\ events = <<>>
    /\ log = 0
    /\ last = [op |-> "mount", req |-> 0, response |-> NoResponse]
    /\ \E m \in PartStrings(MaxParts) :
          san = [stage |-> "msg", input |-> m, linkStripped |-> "", output |-> ""]

\* The inner call: this.stripLinkFromMessage( response.msg ).
StripLink ==
    /\ san.stage = "msg"
    /\ san' = [san EXCEPT !.stage = "linkStripped",
                          !.linkStripped = stripLinkFromMessage(san.input)]
    /\ UNCHANGED <<state, stepState, value, onChange, emailInput, requests, clicks, events, log, last>>

\* The outer call: this.stripMessage( ... ), whose result is displayed.
StripPrefix ==
    /\ san.stage = "linkStripped"
    /\ san' = [san EXCEPT !.stage = "displayed",
                          !.output = stripMessage(san.linkStripped)]
    /\ UNCHANGED <<state, stepState, value, onChange, emailInput, requests, clicks, events, log, last>>

NextSanitize ==
    \/ StripLink
    \/ StripPrefix

SpecSanitize == InitSanitize /\ [][NextSanitize]_vars

-----------------------------------------------------------------------------
(* Properties *)

\* s holds sub as a substring.
Contains(s, sub) ==
    \E i \in 1..(Len(s) - Len(sub) + 1) : SubSeq(s, i, i + Len(sub) - 1) = sub

\* The then-callback ran last on the state, for the response last.response.
Handled == last.op = "then"

\* The text of the status paragraph, when the form is rendered.
Displayed(text) ==
    \/ render(state, stepState).null
    \/ render(state, stepState).message.text = text

\* C1: after a response whose msg contains "is already subscribed" is
\* handled, whatever its result tag, the widget is not loading, the success
\* flag is true and the message is the fixed confirmation reminder, which is
\* not the provider's msg.
C1_AlreadySubscribedReminder ==
    (Handled /\ Contains(last.response.msg, AlreadySubscribed)) =>
        /\ state.isLoading = FALSE
        /\ state.successfulSignup = JsTrue
        /\ state.message = JsString(ConfirmationReminder)
        /\ state.message # JsString(last.response.msg)
        /\ Displayed(JsString(ConfirmationReminder))

C1_Witness ==
    /\ Handled
    /\ Contains(last.response.msg, AlreadySubscribed)
    /\ last.response.result = "error"
    /\ ~render(state, stepState).null
    /\ render(state, stepState).message.text = JsString(ConfirmationReminder)

\* C2: after a response with result "error" whose msg does not contain
\* "is already subscribed" is handled, the widget is not loading, the success
\* flag is false and the message is the msg with the link stripped first and
\* the prefix stripped second.
C2_ErrorFailedSanitized ==
    (/\ Handled
     /\ ~Contains(last.response.msg, AlreadySubscribed)
     /\ last.response.result = "error") =>
        /\ state.isLoading = FALSE
        /\ state.successfulSignup = JsFalse
        /\ state.message = JsString(stripMessage(stripLinkFromMessage(last.response.msg)))
        /\ Displayed(state.message)

\* The order of the two calls shows: the prefix is only at the start once the link is gone.
C2_Witness ==
    /\ Handled
    /\ last.response = [result |-> "error", msg |-> "<a href=u>x</a>0 - y"]
    /\ state.message = JsString("y")
    /\ state.successfulSignup = JsFalse
    /\ ~state.isLoading

\* C3: after a response with any result other than "error" whose msg does not
\* contain "is already subscribed" is handled, the widget is not loading, the
\* success flag is true and the message is the msg itself, unsanitized.
C3_SuccessVerbatim ==
    (/\ Handled
     /\ ~Contains(last.response.msg, AlreadySubscribed)
     /\ last.response.result # "error") =>
        /\ state.isLoading = FALSE
        /\ state.successfulSignup = JsTrue
        /\ state.message = JsString(last.response.msg)
        /\ Displayed(JsString(last.response.msg))

\* A success message keeps its anchor, another its leading "0 - ".
C3_Witness ==
    /\ Handled
    /\ last.response.result # "error"
    /\ \/ /\ last.response.msg = "<a href=u>x</a>0 - y"
          /\ state.message = JsString("<a href=u>x</a>0 - y")
       \/ /\ last.response.msg = "0 - Your email is invalid"
          /\ state.message = JsString("0 - Your email is invalid")
    /\ state.successfulSignup = JsTrue

\* The ChangeEvent that carries the flag v.
SignupEvent(v) == [name |-> "mailchimpSignup", value |-> [hasSignup |-> v]]

\* The step is a then-callback, a catch-callback, a submit action.
ThenStep == last'.op = "then" /\ requests' # requests

CatchStep == last'.op = "catch" /\ requests' # requests

SignupStep == last'.op = "signup" /\ requests' # requests

\* The then-callback of the step handles a classified remote error.
ClassifiedErrorStep ==
    /\ ThenStep
    /\ last'.response.result = "error"
    /\ ~Contains(last'.response.msg, AlreadySubscribed)

\* C4: mounted with value {hasSignup: false}, every update that makes the
\* success flag true, the first one included, appends exactly one event
\* named mailchimpSignup with value {hasSignup: true}, and every step that
\* leaves the success flag as it is appends no event.
C4_SuccessEmitsOnce ==
    [][value = FALSE =>
        /\ (state'.successfulSignup = JsTrue /\ state.successfulSignup # JsTrue) =>
                events' = Append(events, SignupEvent(JsTrue))
        /\ (state'.successfulSignup = state.successfulSignup) => events' = events]_vars

\* One event after the first success, and an update and a re-render later.
C4_Witness ==
    /\ value = FALSE
    /\ state.successfulSignup = JsTrue
    /\ state.isLoading
    /\ last.op = "signup"
    /\ stepState.currentStep = "success"
    /\ events = << SignupEvent(JsTrue) >>

\* C5 as claimed: handling a classified remote error never invokes onChange.
C5_ErrorNeverEmits ==
    [][ClassifiedErrorStep => events' = events]_vars

\* C5 as amended: an event is emitted only by a step that changes the success
\* flag; handling a classified remote error emits one event, with value
\* {hasSignup: false}, when the flag was not already false (as the first
\* response after mount and after a successful signup), and none otherwise.
C5_ErrorEmitsOnChange ==
    [][/\ events' # events => state'.successfulSignup # state.successfulSignup
       /\ ClassifiedErrorStep =>
             IF state.successfulSignup # JsFalse
             THEN events' = Append(events, SignupEvent(JsFalse))
             ELSE events' = events]_vars

\* An error after a successful signup has told the host hasSignup: false.
C5_Witness ==
    /\ Handled
    /\ last.response.result = "error"
    /\ ~Contains(last.response.msg, AlreadySubscribed)
    /\ events = << SignupEvent(JsTrue), SignupEvent(JsFalse) >>

\* C6: nothing is rendered exactly when the host context has currentStep
\* "success" and hasSignup true; in every other host context the email field
\* and the button are rendered, whatever the widget's state.
C6_SkipRenderingIff ==
    LET element == render(state, stepState)
    IN  /\ element.null <=>
              (stepState.currentStep = "success" /\ stepState.hasSignup = JsTrue)
        /\ element.null =>
              /\ ~element.input
              /\ ~element.button
              /\ element.message.className = ""
              /\ element.loader = "null"
        /\ ~element.null => (element.input /\ element.button)

\* Both sides: nothing rendered while loading, the form rendered on the
\* success step while loading.
C6_Witness ==
    /\ state.isLoading
    /\ stepState.currentStep = "success"
    /\ stepState.hasSignup = JsTrue
    /\ render(state, stepState).null
    /\ render(state, [stepState EXCEPT !.hasSignup = JsUndefined]).button

\* C7: the state a submit action leads to renders the loading overlay, and
\* the state the handling of a structured response leads to has isLoading
\* false and renders no overlay.
C7_OverlayShownThenHidden ==
    [][/\ SignupStep =>
             render(state', stepState').loader = "yoast-wizard-overlay"
       /\ ThenStep =>
             /\ state'.isLoading = FALSE
             /\ render(state', stepState').loader = "null"]_vars

\* The overlay is gone after a response although another request is pending.
C7_Witness ==
    /\ Handled
    /\ ~state.isLoading
    /\ ~render(state, stepState).null
    /\ render(state, stepState).loader = "null"
    /\ \E i \in DOMAIN requests : requests[i].status = "pending"

\* C8 as claimed: a rejected request leaves the state unchanged with
\* isLoading true, calls no onChange and writes one log entry.
C8_RejectKeepsLoadingTrue ==
    [][CatchStep =>
        /\ state' = state
        /\ state'.isLoading = TRUE
        /\ events' = events
        /\ log' = log + 1]_vars

\* C8 as amended: a rejected request leaves isLoading, the success flag and
\* the message at their prior values (isLoading is false before and after
\* when a response of another request was handled in between), calls no
\* onChange and writes one log entry, its only effect.
C8_RejectLeavesState ==
    [][CatchStep =>
        /\ state' = state
        /\ events' = events
        /\ log' = log + 1
        /\ UNCHANGED <<stepState, value, onChange, emailInput, clicks, san>>
        /\ (last.op = "signup" => state'.isLoading = TRUE)]_vars

\* A rejection with the widget stuck in loading.
C8_Witness ==
    /\ last.op = "catch"
    /\ log = 1
    /\ state.isLoading
    /\ \A i \in DOMAIN requests : requests[i].status = "rejected"

\* C9 as claimed: at mount isLoading is false, no message is set and the
\* success flag is the boolean that the host supplied as hasSignup.
C9_MountIdle ==
    last.op = "mount" =>
        /\ state.isLoading = FALSE
        /\ state.message = NoMessage
        /\ state.successfulSignup = JsBool(value)

\* s holds an anchor element: an "<a" and, after it, a "</a>".
ContainsAnchor(s) ==
    \E i \in 1..Len(s), j \in 1..Len(s) :
        /\ i + 2 <= j
        /\ j + 3 <= Len(s)
        /\ SubSeq(s, i, i + 1) = "<a"
        /\ SubSeq(s, j, j + 3) = "</a>"

\* In s an "<a" stands at i and a "</a>" at j (1-based) of the same line.
AnchorOnOneLine(s, i, j) ==
    /\ i + 2 <= j
    /\ j + 3 <= Len(s)
    /\ SubSeq(s, i, i + 1) = "<a"
    /\ SubSeq(s, j, j + 3) = "</a>"
    /\ ~\E k \in (i + 2)..(j - 1) : SubSeq(s, k, k) = "\n" \/ SubSeq(s, k, k) = "\r"

\* The sanitization of san.input has run to its end.
Sanitized == san.stage = "displayed"

\* C10 as claimed: the displayed message of an error msg that contains an
\* anchor element contains no anchor element.
C10_NoAnchorDisplayed ==
    (Sanitized /\ ContainsAnchor(san.input)) => ~ContainsAnchor(san.output)

\* C10 as amended: of an error msg in which an "<a" is followed on the same
\* line by a "</a>", the first such "<a" up to its nearest "</a>" is removed
\* and everything else is kept in order (before the prefix is stripped): any
\* further anchor is still displayed; a msg without such a span is kept whole.
C10_FirstAnchorRemoved ==
    Sanitized =>
        LET m == san.input
            P == 1..Len(m)
        IN  IF \E i \in P, j \in P : AnchorOnOneLine(m, i, j)
            THEN \E i \in P, j \in P :
                    /\ AnchorOnOneLine(m, i, j)
                    /\ \A i2 \in P, j2 \in P :
                          AnchorOnOneLine(m, i2, j2) => (i < i2 \/ (i = i2 /\ j <= j2))
                    /\ san.linkStripped = SubSeq(m, 1, i - 1) \o SubSeq(m, j + 4, Len(m))
                    /\ san.output = stripMessage(san.linkStripped)
            ELSE /\ san.linkStripped = m
                 /\ san.output = stripMessage(m)

\* Of two anchors the second one is still displayed.
C10_Witness ==
    /\ Sanitized
    /\ san.input = "<a>x</a>t<a>x</a>"
    /\ san.output = "t<a>x</a>"

\* C11: the prefix is stripped from the output of the link stripping: a
\* string that starts with the 4 characters "0 - " loses exactly these 4
\* characters, once; any other string, also one with "0 - " further on, is
\* returned as it is.
C11_PrefixStrippedOnce ==
    Sanitized =>
        LET s == san.linkStripped
        IN  IF Len(s) >= 4 /\ SubSeq(s, 1, 4) = "0 - "
            THEN /\ Len(san.output) = Len(s) - 4
                 /\ "0 - " \o san.output = s
            ELSE san.output = s

\* Of two prefixes one is left.
C11_Witness ==
    /\ Sanitized
    /\ san.linkStripped = "0 - 0 - t"
    /\ san.output = "0 - t"

\* encodeURIComponent, for the characters that occur in Emails: letters and
\* "." are unreserved, the others are percent-encoded.
PercentEncoded(c) ==
    CASE c = "+" -> "%2B"
      [] c = "&" -> "%26"
      [] c = "=" -> "%3D"
      [] c = "@" -> "%40"
      [] OTHER -> c

RECURSIVE encodeURIComponent(_)
encodeURIComponent(s) ==
    IF s = ""
    THEN ""
    ELSE PercentEncoded(SubSeq(s, 1, 1)) \o encodeURIComponent(SubSeq(s, 2, Len(s)))

\* C12 as claimed: every request goes to mailchimpActionUrl with the body
\* "EMAIL=" and the URL-encoded address that was in the field at the click,
\* so that no "+", "&" or "=" of the address is in the body.
C12_BodyUrlEncoded ==
    /\ Len(requests) = clicks
    /\ \A i \in DOMAIN requests :
          LET body == requests[i].data
          IN  /\ requests[i].url = MailchimpActionUrl
              /\ body = "EMAIL=" \o encodeURIComponent(requests[i].email)
              /\ \A k \in 7..Len(body) : SubSeq(body, k, k) \notin { "+", "&", "=" }

\* C13: signup is not guarded by the loading flag: the number of requests
\* sent is the number of submit actions, and a submit action while loading
\* adds a pending request to those in flight.
C13_EveryClickSends ==
    [][/\ clicks' = Len(requests')
       /\ clicks' # clicks =>
             /\ clicks' = clicks + 1
             /\ Len(requests') = Len(requests) + 1
             /\ requests'[Len(requests')].status = "pending"
             /\ \A i \in DOMAIN requests : requests'[i] = requests[i]]_vars

\* Two clicks, the second one while loading, and two requests in flight.
C13_Witness ==
    /\ clicks = 2
    /\ Len(requests) = 2
    /\ \A i \in DOMAIN requests : requests[i].status = "pending"
    /\ state.isLoading

\* The state the constructor sets.
MountState ==
    [successfulSignup |-> ValueObject(value), isLoading |-> FALSE, message |-> NoMessage]

\* C14: the success flag and the message after a response is handled are
\* those of that response alone: nothing of the responses handled before it,
\* in whatever order the requests were sent and answered, is left.
C14_LastHandledWins ==
    Handled => state = handleResponse(MountState, last.response)

\* The first request was handled after the second one, and its error has
\* replaced the success of the second.
C14_Witness ==
    /\ Handled
    /\ last.req = 1
    /\ Len(requests) = 2
    /\ requests[2].status = "resolved"
    /\ state.successfulSignup = JsFalse
    /\ events = << SignupEvent(JsTrue), SignupEvent(JsFalse) >>

Overlay == "yoast-wizard-overlay"

SomePending == \E i \in DOMAIN requests : requests[i].status = "pending"

\* C15 as claimed: while a sent request is pending and rendering is not
\* skipped, the loading overlay is rendered.
C15_OverlayWhilePending ==
    (SomePending /\ ~render(state, stepState).null) =>
        render(state, stepState).loader = Overlay

\* C15 as amended: the overlay is rendered, when rendering is not skipped,
\* from a submit action until the next response is handled, not until every
\* request is resolved: a submit action sets the loading flag, only a
\* then-callback clears it, and it clears it also while other requests are
\* pending.
C15_OverlayUntilNextResponse ==
    [][/\ SignupStep => state'.isLoading
       /\ (state.isLoading /\ ~ThenStep) => state'.isLoading
       /\ ThenStep => ~state'.isLoading
       /\ (render(state', stepState').loader = Overlay) <=>
             (state'.isLoading /\ ~render(state', stepState').null)]_vars

\* The first of two requests is answered: no overlay, the second one pending.
C15_Witness ==
    /\ last = [op |-> "then", req |-> 1, response |-> last.response]
    /\ Len(requests) = 2
    /\ requests[2].status = "pending"
    /\ render(state, stepState).input
    /\ render(state, stepState).loader = "null"

\* The four states of the data model, read off a state st of a widget
\* mounted with the flag v.
Idle(st, v) ==
    ~st.isLoading /\ st.message = NoMessage /\ st.successfulSignup = ValueObject(v)

Submitting(st) == st.isLoading

Succeeded(st) ==
    ~st.isLoading /\ st.message.tag = "string" /\ st.successfulSignup = JsTrue

Failed(st) ==
    ~st.isLoading /\ st.message.tag = "string" /\ st.successfulSignup = JsFalse

\* C16 as claimed: while loading, no message and no success flag of an
\* earlier submission is held: the state is the one of a submission from Idle.
C16_SubmittingHoldsNoOutcome ==
    state.isLoading =>
        /\ state.message = NoMessage
        /\ state.successfulSignup = ValueObject(value)

\* C16 as amended: a widget that is not loading is in exactly one of Idle,
\* Succeeded and Failed; a submit action changes nothing but the loading
\* flag, so that a widget that is loading still holds, and renders under the
\* overlay, the message and the success flag of the outcome before.
C16_SubmittingKeepsOutcome ==
    [][/\ \/ Submitting(state')
          \/ Idle(state', value') /\ ~Succeeded(state') /\ ~Failed(state')
          \/ Succeeded(state') /\ ~Idle(state', value') /\ ~Failed(state')
          \/ Failed(state') /\ ~Idle(state', value') /\ ~Succeeded(state')
       /\ SignupStep =>
             /\ state' = [state EXCEPT !.isLoading = TRUE]
             /\ render(state', stepState').message = render(state, stepState).message]_vars

\* A submit action from Failed: loading, the error message still rendered.
C16_Witness ==
    /\ last.op = "signup"
    /\ state.isLoading
    /\ state.successfulSignup = JsFalse
    /\ state.message = JsString("Your email is invalid")
    /\ render(state, stepState).loader = Overlay
    /\ render(state, stepState).message =
          [className |-> "yoast-wizard-mailchimp-message-error",
           text |-> JsString("Your email is invalid")]

SuccessStyle == "yoast-wizard-mailchimp-message-success"

ErrorStyle == "yoast-wizard-mailchimp-message-error"

\* C17 as claimed: once a response is handled the paragraph has the success
\* style exactly for a Success or AlreadySubscribed response and the error
\* style exactly for an Error response; a widget mounted with hasSignup false
\* shows no paragraph of the success style before a response is handled.
C17_StyledByPolarity ==
    LET element == render(state, stepState)
        isError == /\ last.response.result = "error"
                   /\ ~Contains(last.response.msg, AlreadySubscribed)
        noneHandled == \A i \in DOMAIN requests : requests[i].status # "resolved"
    IN  ~element.null =>
            /\ Handled =>
                  /\ element.message.className = ErrorStyle <=> isError
                  /\ element.message.className = SuccessStyle <=> ~isError
            /\ (value = FALSE /\ noneHandled) =>
                  element.message.className # SuccessStyle

\* Every request has settled.
AllSettled == clicks > 0 /\ ~SomePending

\* C18 as claimed, its second half: when the last request to settle has
\* failed at transport level, the widget is left loading.
C18_StuckAfterReject ==
    (AllSettled /\ last.op = "catch") => state.isLoading

\* C18 as amended: when no request fails at transport level the widget ends
\* up, and stays, not loading; a transport failure leaves the loading flag as
\* it is, so it stays true unless a response of another request was handled
\* since the last submit action, and once every request has settled only a
\* new submit action followed by a then-callback changes it.
C18_SettlesOrSticks ==
    /\ [](log = 0) => <>[](~state.isLoading)
    /\ [][/\ CatchStep => state'.isLoading = state.isLoading
          /\ (last.op = "signup" /\ CatchStep) => state'.isLoading
          /\ (state.isLoading /\ ~state'.isLoading) => ThenStep
          /\ (~SomePending /\ state'.isLoading # state.isLoading) => SignupStep]_vars

\* Stuck in loading after a transport failure, an earlier response handled.
C18_Witness ==
    /\ AllSettled
    /\ last.op = "catch"
    /\ state.isLoading
    /\ requests[1].status = "resolved"
    /\ state.message # NoMessage

\* C19: once an event was emitted, the hasSignup of the newest event is the
\* success flag of the widget: every step that changes the flag, to true or
\* to false, emits in the same step one event with the new flag.
C19_HostAgrees ==
    [][/\ events' # <<>> =>
             events'[Len(events')].value.hasSignup = state'.successfulSignup
       /\ state'.successfulSignup # state.successfulSignup =>
             events' = Append(events, SignupEvent(state'.successfulSignup))]_vars

\* An error, then a success: the host was told false, then true.
C19_Witness ==
    /\ events = << SignupEvent(JsFalse), SignupEvent(JsTrue) >>
    /\ state.successfulSignup = JsTrue

=============================================================================
